---- MODULE Spec2Model ----
(***************************************************************************)
(* Model of transforms/universal/resize/src/resize_transform.py:           *)
(* ResizeTransform (transform / flush over a single-table buffer) and      *)
(* ResizeTransformConfiguration.apply_input_params.                        *)
(*                                                                         *)
(* A pyarrow table is a record [schema, rows]; a row is [id, nbytes] where *)
(* id is the row's position in the overall input (so loss, duplication and *)
(* reordering are visible) and nbytes is the size of the one-row slice.    *)
(* Python's None is the empty sequence, a present table t is <<t>>.        *)
(* A float is [nan, val]: argparse's type=float accepts "nan", and every   *)
(* ordered comparison with NaN is False.                                   *)
(***************************************************************************)
EXTENDS Integers, Sequences, FiniteSets

\* ---------------------------------------------------------------- bounds
MaxRowLimit == 2        \* largest max_rows_per_table tried
MaxRows == 4            \* rows fed to one instance over all its transform calls
MaxCalls == 4           \* transform + flush calls made on one instance
MaxArg == 2             \* |value| of the numeric CLI arguments tried

\* ------------------------------------------------------- program constants
MB == 1048576
LOCAL_TO_DISK == 2

max_rows_per_table_key == "max_rows_per_table"
max_mbytes_per_table_key == "max_mbytes_per_table"
size_type_key == "size_type"
size_type_disk == "disk"
size_type_memory == "memory"
size_type_default == size_type_disk

\* ------------------------------------------------------------------ floats
Float(v) == [nan |-> FALSE, val |-> v]
NaN == [nan |-> TRUE, val |-> 0]

\* x <= 0 and x > 0 on a float: both False for NaN
FloatLeZero(x) == (~x.nan) /\ x.val <= 0
FloatGtZero(x) == (~x.nan) /\ x.val > 0
\* the comparison taken as >=
IntGeFloat(i, x) == (~x.nan) /\ i >= x.val

\* int > float, as in table.nbytes > self.max_bytes_per_table
IntGtFloat(i, x) == (~x.nan) /\ i > x.val
\* int * float
FloatMul(i, x) == IF x.nan THEN NaN ELSE Float(i * x.val)

\* ------------------------------------------------------------------ tables
None == << >>
Some(t) == << t >>

Min(a, b) == IF a < b THEN a ELSE b

num_rows(t) == Len(t.rows)

RECURSIVE SumBytes(_)
SumBytes(rows) == IF rows = << >> THEN 0 ELSE Head(rows).nbytes + SumBytes(Tail(rows))

\* table.nbytes: the bytes the table's rows reference
nbytes(t) == SumBytes(t.rows)

\* table.slice(offset, length): length is clamped to the rows available
slice(t, offset, length) ==
    [schema |-> t.schema,
     rows |-> SubSeq(t.rows, offset + 1, Min(offset + length, Len(t.rows)))]

\* concat_tables with its arguments swapped
concat_tables_swapped(a, b) == [schema |-> a.schema, rows |-> b.rows \o a.rows]

\* pyarrow.concat_tables([a, b]) raises unless the schemas are the same
concat_ok(a, b) == a.schema = b.schema
concat_tables(a, b) == [schema |-> a.schema, rows |-> a.rows \o b.rows]

\* ---------------------------------------------------------------- state
VARIABLES
    params,               \* ResizeTransformConfiguration.params (a dict)
    params_before,        \* params as it was when apply_input_params was entered
    applied,              \* what apply_input_params returned
    ctor,                 \* how ResizeTransform.__init__ ended
    max_rows_per_table,   \* ResizeTransform.max_rows_per_table
    max_bytes_per_table,  \* ResizeTransform.max_bytes_per_table (a float)
    buffer,               \* ResizeTransform.buffer: None or Some(table)
    op,                   \* the last call made on the instance
    raised,               \* whether that call raised
    result,               \* the list of tables that call returned
    stats,                \* the stats dict that call returned
    arg,                  \* the table that call received (None for flush)
    before,               \* buffer as it was when that call was entered
    inputs,               \* every row handed to transform so far, in order
    outputs,              \* every table returned so far, in order
    mark,                 \* where inputs/outputs stood at the first and at
                          \* the last mismatch
    dropped,              \* ids of the rows discarded by a mismatch
    calls,                \* number of transform and flush calls so far
    flushes               \* number of flush calls so far

vars == << params, params_before, applied, ctor, max_rows_per_table,
           max_bytes_per_table, buffer, op, raised, result, stats, arg, before,
           inputs, outputs, mark, dropped, calls, flushes >>

instance_vars == << max_rows_per_table, max_bytes_per_table, buffer, op, raised,
                    result, stats, arg, before, inputs, outputs, mark, dropped, calls,
                    flushes >>

\* ------------------------------------------------------------- dictionaries
EmptyDict == [k \in {} |-> 0]

\* d.get(key, default)
Get(d, key, default) == IF key \in DOMAIN d THEN d[key] ELSE default

\* a | b: the keys of both, b's value where both have the key
Merge(a, b) ==
    [k \in (DOMAIN a) \cup (DOMAIN b) |-> IF k \in DOMAIN b THEN b[k] ELSE a[k]]

\* CLIArgumentProvider.capture_parameters(args, cli_prefix, False): the
\* resize_ arguments of the namespace, keyed without the prefix
capture_parameters(args) ==
    [k \in {max_rows_per_table_key, max_mbytes_per_table_key, size_type_key} |->
        args[k]]

\* ----------------------------------------- ResizeTransformConfiguration
\* the test of line 187
NeitherDefined(rows, mbytes) == rows <= 0 /\ FloatLeZero(mbytes)
\* the test of line 190
BothDefined(rows, mbytes) == rows > 0 /\ FloatGtZero(mbytes)

\* apply_input_params(args): the params it stores and the bool it returns
apply_input_params(self_params, args) ==
    LET merged == Merge(self_params, capture_parameters(args))
        rows == merged[max_rows_per_table_key]
        mbytes == merged[max_mbytes_per_table_key]
    IN  [params |-> merged,
         ret |-> IF NeitherDefined(rows, mbytes) THEN FALSE
                 ELSE IF BothDefined(rows, mbytes) THEN FALSE
                 ELSE TRUE]

\* ------------------------------------------------- ResizeTransform.__init__
\* size_type_default in disk_memory (a substring test; the CLI allows only
\* "disk" and "memory", of which only "disk" contains "disk")
DiskIn(disk_memory) == disk_memory = size_type_disk

\* the byte limit of lines 55-58
BytesLimit(config) ==
    LET mbytes == Get(config, max_mbytes_per_table_key, Float(0))
        bytes == FloatMul(MB, mbytes)
    IN  IF DiskIn(Get(config, size_type_key, size_type_default))
        THEN FloatMul(LOCAL_TO_DISK, bytes)
        ELSE bytes

\* the test of line 63
CtorNeither(rows, bytes) == rows <= 0 /\ FloatLeZero(bytes)
\* the test of line 65
CtorBoth(rows, bytes) == rows > 0 /\ FloatGtZero(bytes)

\* __init__(config): the fields it sets and whether it raised ValueError
ResizeTransformInit(config) ==
    LET rows == Get(config, max_rows_per_table_key, 0)
        bytes == BytesLimit(config)
    IN  [max_rows_per_table |-> rows,
         max_bytes_per_table |-> bytes,
         buffer |-> None,
         raises |-> CtorNeither(rows, bytes) \/ CtorBoth(rows, bytes)]

\* ------------------------------------------------ ResizeTransform.transform
\* SliceLength without the cap of lines 98-99
SliceLengthUncapped(n_rows, start_row, max_rows) == n_rows - start_row

\* lines 97-99: the length of the next slice
SliceLength(n_rows, start_row, max_rows) ==
    IF n_rows - start_row > max_rows THEN max_rows ELSE n_rows - start_row

\* the next slice starting one row after the last one started
NextStartRowByOne(start_row, max_rows) == start_row + 1

\* line 103: where the next slice starts
NextStartRow(start_row, max_rows) == start_row + max_rows

\* lines 96-104: the while loop of the row split
RECURSIVE RowLoop(_, _, _, _, _)
RowLoop(table, max_rows, start_row, rows_left, res) ==
    IF start_row < num_rows(table) /\ rows_left >= max_rows
    THEN LET length == SliceLength(num_rows(table), start_row, max_rows)
             a_slice == slice(table, start_row, length)
         IN  RowLoop(table, max_rows, NextStartRow(start_row, max_rows),
                     rows_left - max_rows, Append(res, a_slice))
    ELSE [result |-> res, start_row |-> start_row]

\* line 117: the running size a new chunk starts with
SizeAfterCapture(row_size) == 0

\* a chunk closed inclusive of the row that crossed the limit
ChunkLengthInclusive(n, start_row) == n - start_row + 1

\* line 114: the length of the chunk closed at row n
ChunkLength(n, start_row) == n - start_row

\* the next chunk starting after the row that crossed the limit
NextChunkStartSkipsRow(n) == n + 1

\* line 116: the row the next chunk starts at
NextChunkStart(n) == n

\* lines 109-117: the for loop of the size split, at row n
RECURSIVE ByteLoop(_, _, _, _, _, _)
ByteLoop(table, max_bytes, n, start_row, current_size, res) ==
    IF n >= num_rows(table)
    THEN [result |-> res, start_row |-> start_row]
    ELSE LET row_size == nbytes(slice(table, n, 1))
             size == current_size + row_size
         IN  IF IntGtFloat(size, max_bytes)
             THEN ByteLoop(table, max_bytes, n + 1, NextChunkStart(n),
                           SizeAfterCapture(row_size),
                           Append(res, slice(table, start_row,
                                             ChunkLength(n, start_row))))
             ELSE ByteLoop(table, max_bytes, n + 1, start_row, size, res)

\* lines 90-117: the tables to return and the row the remainder starts at
Split(table, max_rows, max_bytes) ==
    IF max_rows > 0
    THEN RowLoop(table, max_rows, 0, num_rows(table), << >>)
    ELSE IF IntGtFloat(nbytes(table), max_bytes)
         THEN ByteLoop(table, max_bytes, 0, 0, 0, << >>)
         ELSE [result |-> << >>, start_row |-> 0]

\* Remaining starting one row late
RemainingSkipsRow(table, start_row, buf) ==
    IF start_row < num_rows(table)
    THEN Some(slice(table, start_row + 1, num_rows(table) - start_row - 1))
    ELSE buf

\* lines 118-122: the buffer the call leaves (buf is None here: lines 62, 82, 131)
Remaining(table, start_row, buf) ==
    IF start_row < num_rows(table)
    THEN Some(slice(table, start_row, num_rows(table) - start_row))
    ELSE buf

\* the except clause keeping the old buffer instead of the incoming table
MismatchKeepsBuffer(buf, table) == buf

\* lines 83-88: the buffer the except clause leaves
MismatchBuffer(buf, table) == Some(table)

\* transform(table) on an instance: the buffer it leaves, the list it returns,
\* and whether it raised ValueError instead of returning
transform(buf, max_rows, max_bytes, table) ==
    IF buf # None /\ ~concat_ok(buf[1], table)
    THEN [buffer |-> MismatchBuffer(buf, table), result |-> << >>,
          stats |-> EmptyDict, raises |-> TRUE]
    ELSE LET working == IF buf # None THEN concat_tables(buf[1], table) ELSE table
             split == Split(working, max_rows, max_bytes)
         IN  [buffer |-> Remaining(working, split.start_row, None),
              result |-> split.result,
              stats |-> EmptyDict,
              raises |-> FALSE]

\* --------------------------------------------------- ResizeTransform.flush
\* flush returning nothing although a table is buffered
FlushResultWithheld(buf) == << >>

\* lines 127-134: the list flush returns
FlushResult(buf) == IF buf # None THEN << buf[1] >> ELSE << >>

flush(buf) ==
    [buffer |-> None, result |-> FlushResult(buf), stats |-> EmptyDict,
     raises |-> FALSE]

\* ------------------------------------------------------------------ inputs
Schemas == {"s1", "s2"}

\* one-row sizes: within every byte limit tried, and above the smallest
RowSizes == {MB, 3 * MB}

\* the tables of n rows whose ids continue from first_id
Tables(n, first_id, sizes) ==
    { [schema |-> s,
       rows |-> [i \in 1..n |-> [id |-> first_id + i - 1, nbytes |-> z[i]]]] :
      s \in Schemas, z \in [1..n -> sizes] }

\* the CLI namespaces that configure a run: a row limit, or a limit of one
\* megabyte measured either way, the other argument left at its default of -1
RunArgs ==
    { [max_rows_per_table |-> r, max_mbytes_per_table |-> Float(-1),
       size_type |-> size_type_default] : r \in 1..MaxRowLimit }
    \cup
    { [max_rows_per_table |-> -1, max_mbytes_per_table |-> Float(1),
       size_type |-> t] : t \in {size_type_disk, size_type_memory} }

\* every CLI namespace tried against the two validation layers
AllArgs ==
    { [max_rows_per_table |-> r, max_mbytes_per_table |-> m, size_type |-> t] :
      r \in (-MaxArg)..MaxArg,
      m \in { Float(v) : v \in (-MaxArg)..MaxArg } \cup {NaN},
      t \in {size_type_disk, size_type_memory} }

\* ----------------------------------------------------------------- actions
NoMark == [set |-> FALSE, inputs |-> 0, outputs |-> 0,
           first_inputs |-> 0, first_outputs |-> 0]

FreshInstance(t) ==
    /\ max_rows_per_table = t.max_rows_per_table
    /\ max_bytes_per_table = t.max_bytes_per_table
    /\ buffer = t.buffer
    /\ op = "init"
    /\ raised = FALSE
    /\ result = << >>
    /\ stats = EmptyDict
    /\ arg = None
    /\ before = None
    /\ inputs = << >>
    /\ outputs = << >>
    /\ mark = NoMark
    /\ dropped = {}
    /\ calls = 0
    /\ flushes = 0

\* a run: the launcher applied valid arguments and built the transform from
\* the configuration's params
Init ==
    \E a \in RunArgs :
        LET cfg == apply_input_params(EmptyDict, a)
            t == ResizeTransformInit(cfg.params)
        IN  /\ cfg.ret
            /\ ~t.raises
            /\ params = cfg.params
            /\ params_before = EmptyDict
            /\ applied = "True"
            /\ ctor = "ok"
            /\ FreshInstance(t)

\* one transform call, on a table whose one-row sizes are drawn from sizes
TransformOf(sizes) ==
    /\ ctor = "ok"
    /\ calls < MaxCalls
    /\ \E n \in 0..(MaxRows - Len(inputs)) :
       \E table \in Tables(n, Len(inputs) + 1, sizes) :
          LET r == transform(buffer, max_rows_per_table, max_bytes_per_table, table)
          IN  /\ buffer' = r.buffer
              /\ result' = r.result
              /\ stats' = r.stats
              /\ raised' = r.raises
              /\ op' = "transform"
              /\ arg' = Some(table)
              /\ before' = buffer
              /\ inputs' = inputs \o table.rows
              /\ outputs' = outputs \o r.result
              /\ mark' = IF r.raises
                         THEN [set |-> TRUE,
                               inputs |-> Len(inputs),
                               outputs |-> Len(outputs),
                               first_inputs |-> IF mark.set THEN mark.first_inputs
                                                ELSE Len(inputs),
                               first_outputs |-> IF mark.set THEN mark.first_outputs
                                                 ELSE Len(outputs)]
                         ELSE mark
              /\ dropped' = IF r.raises
                            THEN dropped \cup { buffer[1].rows[i].id :
                                                i \in 1..Len(buffer[1].rows) }
                            ELSE dropped
              /\ calls' = calls + 1
    /\ UNCHANGED << params, params_before, applied, ctor, max_rows_per_table,
                    max_bytes_per_table, flushes >>

\* the row split never reads a size, so row-mode runs draw a single one
Transform == TransformOf(IF max_rows_per_table > 0 THEN {MB} ELSE RowSizes)

Flush ==
    /\ ctor = "ok"
    /\ calls < MaxCalls
    /\ LET r == flush(buffer)
       IN  /\ buffer' = r.buffer
           /\ result' = r.result
           /\ stats' = r.stats
           /\ raised' = r.raises
           /\ outputs' = outputs \o r.result
    /\ op' = "flush"
    /\ arg' = None
    /\ before' = buffer
    /\ calls' = calls + 1
    /\ flushes' = flushes + 1
    /\ UNCHANGED << params, params_before, applied, ctor, max_rows_per_table,
                    max_bytes_per_table, inputs, mark, dropped >>

Next == Transform \/ Flush

Spec == Init /\ [][Next]_vars

\* the runs in which every row is one megabyte, within every byte limit tried
TransformSmallRows == TransformOf({MB})

SmallRowsNext == TransformSmallRows \/ Flush

SmallRowsSpec == Init /\ [][SmallRowsNext]_vars

\* ------------------------------------------- the two validation layers
\* a configuration object before apply_input_params, and no transform yet
ConfigInit ==
    /\ params = EmptyDict
    /\ params_before = EmptyDict
    /\ applied = "not called"
    /\ ctor = "not called"
    /\ FreshInstance([max_rows_per_table |-> 0, max_bytes_per_table |-> Float(0),
                      buffer |-> None])

ApplyInputParams ==
    /\ applied = "not called"
    /\ \E a \in AllArgs :
          LET r == apply_input_params(params, a)
          IN  /\ params' = r.params
              /\ applied' = IF r.ret THEN "True" ELSE "False"
    /\ params_before' = params
    /\ UNCHANGED << ctor, instance_vars >>

\* ResizeTransform(config) with the configuration's params as config
Construct ==
    /\ applied # "not called"
    /\ ctor = "not called"
    /\ LET t == ResizeTransformInit(params)
       IN  /\ max_rows_per_table' = t.max_rows_per_table
           /\ max_bytes_per_table' = t.max_bytes_per_table
           /\ buffer' = t.buffer
           /\ ctor' = IF t.raises THEN "ValueError" ELSE "ok"
    /\ UNCHANGED << params, params_before, applied, op, raised, result, stats, arg,
                    before, inputs, outputs, mark, dropped, calls, flushes >>

ConfigNext == ApplyInputParams \/ Construct

ConfigSpec == ConfigInit /\ [][ConfigNext]_vars

\* ------------------------------------------------------------------ claims
RECURSIVE Flatten(_)
Flatten(tables) ==
    IF tables = << >> THEN << >> ELSE Head(tables).rows \o Flatten(Tail(tables))

BufRows(buf) == IF buf = None THEN << >> ELSE buf[1].rows

RowMode == ctor = "ok" /\ max_rows_per_table > 0
ByteMode == ctor = "ok" /\ max_rows_per_table <= 0 /\ FloatGtZero(max_bytes_per_table)

\* C1: row mode, no schema mismatch: after the transform calls and one flush,
\* the rows of all returned tables, in the order returned, are exactly the
\* rows of the input tables in arrival order.
C1_RowOrderPreserved ==
    (RowMode /\ ~mark.set /\ op = "flush" /\ flushes = 1)
        => Flatten(outputs) = inputs

\* a run of three transform calls, one of them with an empty table, that
\* returned tables before the flush and one from it
C1_Witness ==
    /\ RowMode /\ ~mark.set /\ op = "flush" /\ flushes = 1
    /\ calls >= 4
    /\ Len(inputs) >= 3
    /\ Len(outputs) >= 2
    /\ \E i \in 1..Len(outputs) : num_rows(outputs[i]) > 1
    /\ result # << >>
    /\ Flatten(outputs) = inputs

\* C2: row mode: a transform call that finds b buffered rows and receives a
\* compatible table of n rows returns (b+n) div R tables of exactly R rows
\* and leaves (b+n) mod R rows buffered, no buffer when that is 0.
C2_RowSplitCounts ==
    (RowMode /\ op = "transform" /\ ~raised) =>
        LET R == max_rows_per_table
            total == Len(BufRows(before)) + num_rows(arg[1])
        IN  /\ Len(result) = total \div R
            /\ \A i \in 1..Len(result) : num_rows(result[i]) = R
            /\ Len(BufRows(buffer)) = total % R
            /\ (total % R = 0) <=> (buffer = None)
            /\ Flatten(result) \o BufRows(buffer) = BufRows(before) \o arg[1].rows

\* a call that found a buffer, returned a table and buffered a remainder
C2_Witness ==
    /\ RowMode /\ op = "transform" /\ ~raised
    /\ before # None
    /\ Len(result) >= 1
    /\ buffer # None

\* C3: row mode: after the transform calls and the final flush, every table
\* that was returned, by transform or by flush, has at most R rows.
C3_OutputsWithinRowLimit ==
    (RowMode /\ op = "flush" /\ flushes = 1) =>
        \A i \in 1..Len(outputs) : num_rows(outputs[i]) <= max_rows_per_table

\* C4: byte mode: every table a transform call returns has a total size (the
\* sum of the one-row sizes of its rows) of at most B.
C4_OutputsWithinByteLimit ==
    (ByteMode /\ op = "transform") =>
        \A i \in 1..Len(result) :
            ~IntGtFloat(SumBytes(result[i].rows), max_bytes_per_table)

\* C5: flush returns a list of exactly the buffer it found, or an empty list
\* when it found none, with empty stats, and leaves no buffer; the buffered
\* table is returned whole whatever its size.
C5_FlushReturnsBufferWhole ==
    (op = "flush") =>
        /\ ~raised
        /\ result = (IF before # None THEN << before[1] >> ELSE << >>)
        /\ stats = EmptyDict
        /\ buffer = None

\* a flush in row mode that returned a buffered table of more than R rows
C5_Witness ==
    /\ op = "flush" /\ RowMode
    /\ before # None
    /\ num_rows(before[1]) > max_rows_per_table
    /\ result = << before[1] >>
    /\ buffer = None

\* C6: a second flush call on an instance ends in an error.
C6_SecondFlushIsError ==
    (op = "flush" /\ flushes >= 2) => raised

\* C7: once flush has been called, a transform call ends in an error without
\* returning or buffering anything, and the instance holds no buffer.
C7_FlushedIsTerminal ==
    (flushes >= 1) =>
        /\ buffer = None
        /\ (op = "transform") => (raised /\ result = << >>)

Ids(rows) == { rows[i].id : i \in 1..Len(rows) }

\* C8: a transform call whose buffer cannot be concatenated with the incoming
\* table raises, returns nothing and leaves the incoming table as the buffer;
\* the rows that were buffered are in no returned table and not in the buffer.
C8_MismatchReplacesBuffer ==
    /\ (op = "transform" /\ before # None /\ ~concat_ok(before[1], arg[1])) =>
          /\ raised
          /\ result = << >>
          /\ buffer = Some(arg[1])
          /\ Ids(before[1].rows) \subseteq dropped
    /\ dropped \cap (Ids(Flatten(outputs)) \cup Ids(BufRows(buffer))) = {}

\* rows were discarded by a mismatch and later calls returned tables
C8_Witness ==
    /\ dropped # {}
    /\ mark.set
    /\ Len(outputs) > mark.outputs
    /\ op = "flush"
    /\ result # << >>

Positive(x) == (~x.nan) /\ x.val > 0

ExactlyOnePositive(rows, mbytes) ==
    (rows > 0 /\ ~Positive(mbytes)) \/ (~(rows > 0) /\ Positive(mbytes))

\* C10: apply_input_params returns True, and the constructor does not raise,
\* exactly when one of max_rows_per_table and max_mbytes_per_table is positive
\* and the other is not; the two agree on every pair of values.
C10_ValidationExactlyOnePositive ==
    (applied # "not called") =>
        LET ok == ExactlyOnePositive(params[max_rows_per_table_key],
                                     params[max_mbytes_per_table_key])
        IN  /\ (applied = "True") <=> ok
            /\ (ctor # "not called") =>
                  /\ (ctor = "ok") <=> ok
                  /\ (ctor = "ok") <=> (applied = "True")

\* C11: when apply_input_params returns False, the configuration's params
\* are what they were before the call.
C11_RejectLeavesParams ==
    (applied = "False") => params = params_before

\* the working batch of the last transform call: the buffer it found
\* concatenated with the table it received
WorkingBatch ==
    IF before # None THEN concat_tables(before[1], arg[1]) ELSE arg[1]

\* the last call was a byte-mode transform whose working batch was within B
UnderLimit ==
    /\ ByteMode /\ op = "transform" /\ ~raised
    /\ SumBytes(WorkingBatch.rows) <= max_bytes_per_table.val

\* C12 as stated: byte mode: a transform call whose working batch has a total
\* size of at most B returns nothing and leaves the whole working batch as
\* the buffer, and a flush that follows returns exactly that batch.
C12_UnderLimitBuffersAll ==
    [][ /\ UnderLimit' => (result' = << >> /\ buffer' = Some(WorkingBatch'))
        /\ (UnderLimit /\ op' = "flush") => result' = << WorkingBatch >> ]_vars

\* C12 as amended: the same for a working batch of at least one row; an empty
\* working batch leaves no buffer and a flush that follows returns nothing.
C12_UnderLimitBuffersRows ==
    [][ /\ (UnderLimit' /\ num_rows(WorkingBatch') >= 1) =>
              (result' = << >> /\ buffer' = Some(WorkingBatch'))
        /\ (UnderLimit' /\ num_rows(WorkingBatch') = 0) =>
              (result' = << >> /\ buffer' = None)
        /\ (UnderLimit /\ op' = "flush") =>
              result' = (IF num_rows(WorkingBatch) >= 1 THEN << WorkingBatch >>
                         ELSE << >>) ]_vars

\* a flush that followed under-limit transform calls, one of which found a
\* buffer, and returned every row received as one table
C12_Witness ==
    /\ ByteMode /\ op = "flush" /\ ~mark.set
    /\ calls >= 3
    /\ before # None
    /\ num_rows(before[1]) >= 2
    /\ result = << before[1] >>
    /\ outputs = result
    /\ before[1].rows = inputs

\* C13: byte mode, no schema mismatch, whatever the row sizes: after the
\* transform calls and one flush, the rows of all returned tables, in the
\* order returned, are exactly the rows of the input tables in arrival order.
C13_ByteOrderPreserved ==
    (ByteMode /\ ~mark.set /\ op = "flush" /\ flushes = 1)
        => Flatten(outputs) = inputs

\* a run with a row larger than B in which transform calls returned tables
\* and the flush returned the rest
C13_Witness ==
    /\ ByteMode /\ ~mark.set /\ op = "flush" /\ flushes = 1
    /\ calls >= 3
    /\ \E i \in 1..Len(inputs) : inputs[i].nbytes > max_bytes_per_table.val
    /\ Len(outputs) >= 3
    /\ result # << >>
    /\ Flatten(outputs) = inputs

Last(seq) == seq[Len(seq)]

\* C14: byte mode: after a transform call whose working batch has at least
\* one row, the buffer holds at least one row and ends with the last row of
\* the working batch, which the call did not return.
C14_TailStaysBuffered ==
    (ByteMode /\ op = "transform" /\ ~raised /\ num_rows(WorkingBatch) >= 1) =>
        /\ buffer # None
        /\ num_rows(buffer[1]) >= 1
        /\ Last(buffer[1].rows) = Last(WorkingBatch.rows)
        /\ Last(WorkingBatch.rows).id \notin Ids(Flatten(result))

\* a call that returned tables while the limit was crossed at the last row of
\* its working batch, which alone stayed buffered
C14_Witness ==
    /\ ByteMode /\ op = "transform" /\ ~raised
    /\ before # None
    /\ Len(result) >= 2
    /\ buffer # None
    /\ buffer[1].rows = << Last(WorkingBatch.rows) >>

\* C15: no transform call returns a table of zero rows, in row mode and in
\* byte mode.
C15_NoEmptyOutput ==
    (op = "transform") => \A i \in 1..Len(result) : num_rows(result[i]) >= 1

\* C16: the buffer is absent or holds at least one row, and flush returns no
\* table of zero rows.
C16_BufferNeverEmpty ==
    /\ (buffer # None) => num_rows(buffer[1]) >= 1
    /\ (op = "flush") => \A i \in 1..Len(result) : num_rows(result[i]) >= 1

\* rows cut into consecutive runs of R, the last one holding the remainder
RECURSIVE Chunks(_, _)
Chunks(rows, R) ==
    IF rows = << >> THEN << >>
    ELSE IF Len(rows) <= R THEN << rows >>
    ELSE << SubSeq(rows, 1, R) >> \o Chunks(SubSeq(rows, R + 1, Len(rows)), R)

\* C17: row mode, no schema mismatch: after the transform calls and one flush
\* the k-th returned table holds rows (k-1)*R up to k*R of the whole input,
\* the last one the remainder, so the returned tables are the same however
\* the input rows were split into tables.
C17_ChunkingIgnoresBatching ==
    (RowMode /\ ~mark.set /\ op = "flush" /\ flushes = 1) =>
        [k \in 1..Len(outputs) |-> outputs[k].rows]
            = Chunks(inputs, max_rows_per_table)

\* three rows received as three tables and returned as a full table and a
\* remainder
C17_Witness ==
    /\ RowMode /\ ~mark.set /\ op = "flush" /\ flushes = 1
    /\ calls = 4
    /\ Len(inputs) = 3
    /\ max_rows_per_table = 2
    /\ Len(outputs) = 2
    /\ Len(result) = 1

====
